---- MODULE Spec2Model ----
(***************************************************************************)
(* The interactive session of the tutorial                                 *)
(* Tutorials_as_Python_Files/ECCO_v4_data_structure_basics.py.             *)
(*                                                                         *)
(* The tutorial imports its packages (In[1], In[2]), loads one NetCDF grid *)
(* tile into the Dataset `ds` (In[3]) and then inspects it: type(ds), ds,  *)
(* ds.attrs[...], ds.XC, ds.XC.values, type(ds.XC.values) (In[4]..In[9]).  *)
(* The layout of `ds` and of `ds.XC` is the one the tutorial prints and    *)
(* explains section by section.  The dimension lengths of the grid file    *)
(* (50, 90, 90 in the tutorial's file) are the input of the session and    *)
(* are drawn from 1..MaxLen.                                               *)
(*                                                                         *)
(* Python positions are 0-based; TLA+ sequences are 1-based, so position p *)
(* of a Python sequence is element p + 1 of the sequence that models it.   *)
(***************************************************************************)
EXTENDS Integers, Sequences, FiniteSets

\* Largest dimension length of a grid file of the model.
MaxLen == 3

VARIABLES file, imports, ds, out, described, prevDescribed

vars == <<file, imports, ds, out, described, prevDescribed>>

----------------------------------------------------------------------------
(* Values *)

\* Python's None: an unbound name, or a cell that displays nothing.
None == [kind |-> "None"]

\* An exception ending a cell.
Error(t) == [kind |-> "Error", type |-> t]

\* An expression that evaluates to x.
Value(x) == [kind |-> "Value", value |-> x]

\* What a cell leaves: the cell, the key it was given, and the outcome of its
\* expression (a Value or an Error).
Result(cell, arg, outcome) ==
    [kind |-> "Out", cell |-> cell, arg |-> arg, result |-> outcome]

----------------------------------------------------------------------------
(* The content of the grid file, as the tutorial prints it *)

\* Dimensions:  (i1: 50, i2: 90, i3: 90)
DimNames == <<"i1", "i2", "i3">>

\* The data variables the tutorial lists, with their dimensions and type.
DataVariables ==
    << [name |-> "hFacC", dims |-> <<"i1", "i2", "i3">>, dtype |-> "float64"],
       [name |-> "hFacW", dims |-> <<"i1", "i2", "i3">>, dtype |-> "float64"],
       [name |-> "hFacS", dims |-> <<"i1", "i2", "i3">>, dtype |-> "float64"],
       [name |-> "XC",    dims |-> <<"i2", "i3">>,       dtype |-> "float64"],
       [name |-> "YC",    dims |-> <<"i2", "i3">>,       dtype |-> "float64"],
       [name |-> "RC",    dims |-> <<"i1">>,             dtype |-> "float64"],
       [name |-> "RF",    dims |-> <<"i1">>,             dtype |-> "float64"] >>

\* The Dataset's attributes, in the order printed (an ordered dictionary of
\* key/value pairs; the truncated values are kept as printed).
GlobalAttrs ==
    << <<"description", "C-grid parameters (see MITgcm documentation for details)....">>,
       <<"A", ":Format      = native grid (nctiles w. 13 tiles)">>,
       <<"B", ":source      = ECCO consortium (http://ecco-group.org/)">>,
       <<"C", ":institution = JPL/UT/MIT/AER">>,
       <<"D", ":history     = files revision history :">>,
       <<"W", "file created using gcmfaces_IO/write2nctiles.m">>,
       <<"date", "21-Apr-2017">>,
       <<"Conventions", "CF-1.6">>,
       <<"_FillValue", "nan">>,
       <<"missing_value", "nan">> >>

\* The attributes of the variable XC.
XCAttrs ==
    << <<"long_name", "longitude">>, <<"units", "degrees_east">> >>

\* The attributes of a data variable.  The tutorial prints those of XC only;
\* the other variables are modelled without attributes.
VarAttrs(v) == IF v = "XC" THEN XCAttrs ELSE << >>

\* Labels that stop one short of the dimension's length.
LabelsShort(n) == [p \in 1..(n - 1) |-> p]

\* The labels of a dimension of length n are [1, 2, ... n].
Labels(n) == [p \in 1..n |-> p]

----------------------------------------------------------------------------
(* Dictionaries *)

Keys(d) == {d[k][1] : k \in DOMAIN d}

\* A lookup that falls back on one namespace shared by the Dataset and its
\* variables.
AttrsGetItemMerged(d, key) ==
    LET all == d \o GlobalAttrs \o XCAttrs
    IN  IF key \in Keys(all)
        THEN Value(all[CHOOSE k \in DOMAIN all : all[k][1] = key][2])
        ELSE Error("KeyError")

\* d[key] on a Python dictionary: the value, or KeyError.
AttrsGetItem(d, key) ==
    IF key \in Keys(d)
    THEN Value(d[CHOOSE k \in DOMAIN d : d[k][1] = key][2])
    ELSE Error("KeyError")

----------------------------------------------------------------------------
(* The Dataset *)

\* The length of dimension `name` in the grid file f.
FileDimLength(f, name) ==
    f[CHOOSE k \in DOMAIN DimNames : DimNames[k] = name]

\* A numpy array: its shape and element type.
NdArray(shape, dtype) ==
    [kind |-> "numpy.ndarray", shape |-> shape, dtype |-> dtype]

\* An array shaped by the file's dimensions taken by axis position instead
\* of by name.
FileArrayPositional(f, dims, dtype) ==
    NdArray([k \in DOMAIN dims |-> f[k]], dtype)

\* An array whose axes come in the reverse of the declared order.
FileArrayReversed(f, dims, dtype) ==
    NdArray([k \in DOMAIN dims |->
                FileDimLength(f, dims[Len(dims) + 1 - k])], dtype)

\* The array of a variable declared over `dims` in the grid file f.
FileArray(f, dims, dtype) ==
    NdArray([k \in DOMAIN dims |-> FileDimLength(f, dims[k])], dtype)

\* xr.open_dataset(grid_dir + fname)
OpenDataset(f) ==
    [kind |-> "Dataset",
     dims |-> [k \in DOMAIN DimNames |-> <<DimNames[k], f[k]>>],
     coords |-> [k \in DOMAIN DimNames |->
                   [name |-> DimNames[k], dims |-> <<DimNames[k]>>,
                    dtype |-> "float64", labels |-> Labels(f[k])]],
     data_vars |-> [k \in DOMAIN DataVariables |->
                   [name |-> DataVariables[k].name,
                    dims |-> DataVariables[k].dims,
                    values |-> FileArray(f, DataVariables[k].dims,
                                         DataVariables[k].dtype),
                    attrs |-> VarAttrs(DataVariables[k].name)]],
     attrs |-> GlobalAttrs]

----------------------------------------------------------------------------
(* Reading the Dataset *)

\* The names of a sequence of named entries, as a set.
Names(entries) == {entries[k].name : k \in DOMAIN entries}

\* ds.dims[name]: dims is a dict that maps dimension names to lengths.
DimLength(d, name) == AttrsGetItem(d.dims, name)

\* The dimensions of a DataArray, (name: length) pairs in axis order: the
\* names the variable declares with the lengths of the axes of its array.
ArrayDims(var) ==
    [k \in DOMAIN var.dims |-> <<var.dims[k], var.values.shape[k]>>]

\* The coordinates of a DataArray: those of the Dataset that label one of the
\* array's own dimensions, in axis order.
ArrayCoords(d, var) ==
    [k \in DOMAIN var.dims |->
        d.coords[CHOOSE j \in DOMAIN d.coords : d.coords[j].name = var.dims[k]]]

\* The DataArray of data variable v of Dataset d, as `ds.XC` for v = "XC":
\* a name, dimensions, one array of values, coordinates and attributes.
DataArray(d, v) ==
    LET var == d.data_vars[CHOOSE k \in DOMAIN d.data_vars :
                               d.data_vars[k].name = v]
    IN  [kind |-> "DataArray",
         name |-> var.name,
         dims |-> ArrayDims(var),
         values |-> var.values,
         coords |-> ArrayCoords(d, var),
         attrs |-> var.attrs]

\* A summary that lists the attributes first.
DescribeAttrsFirst(d) ==
    [kind |-> "xarray.Dataset",
     sections |->
       << [title |-> "Attributes", body |-> d.attrs],
          [title |-> "Dimensions", body |-> d.dims],
          [title |-> "Coordinates",
           body |-> [k \in DOMAIN d.coords |-> d.coords[k].name]],
          [title |-> "Data variables",
           body |-> [k \in DOMAIN d.data_vars |->
                       <<d.data_vars[k].name, d.data_vars[k].dims,
                         d.data_vars[k].values.dtype>>]] >>]

\* What typing `ds` displays: the object type, then the sections Dimensions,
\* Coordinates, Data variables and Attributes.
Describe(d) ==
    [kind |-> "xarray.Dataset",
     sections |->
       << [title |-> "Dimensions", body |-> d.dims],
          [title |-> "Coordinates",
           body |-> [k \in DOMAIN d.coords |-> d.coords[k].name]],
          [title |-> "Data variables",
           body |-> [k \in DOMAIN d.data_vars |->
                       <<d.data_vars[k].name, d.data_vars[k].dims,
                         d.data_vars[k].values.dtype>>]],
          [title |-> "Attributes", body |-> d.attrs] >>]

----------------------------------------------------------------------------
(* The session *)

\* The keys a reader looks up in an attrs dictionary.
LookupKeys == {"Conventions", "Missing", "date", "long_name", "units"}

Init ==
    /\ file \in [DOMAIN DimNames -> 1..MaxLen]
    /\ imports = {}
    /\ ds = None
    /\ out = None
    /\ described = None
    /\ prevDescribed = None

\* In[1]: import matplotlib.pylab, numpy, sys, xarray, deepcopy, Image, HTML.
Cell1 ==
    /\ imports' = imports \cup {"plt", "np", "sys", "xr", "deepcopy", "Image", "HTML"}
    /\ out' = None
    /\ UNCHANGED <<file, ds, described, prevDescribed>>

\* In[2]: import ecco_v4_py as ecco.
Cell2 ==
    /\ imports' = imports \cup {"ecco"}
    /\ out' = None
    /\ UNCHANGED <<file, ds, described, prevDescribed>>

\* In[3]: ds = xr.open_dataset(grid_dir + fname).
Cell3 ==
    /\ IF "xr" \in imports
       THEN ds' = OpenDataset(file) /\ out' = None
       ELSE out' = Error("NameError") /\ UNCHANGED ds
    /\ UNCHANGED <<file, imports, described, prevDescribed>>

\* In[4]: type(ds).
Cell4 ==
    /\ out' = IF ds = None THEN Error("NameError")
              ELSE Result("In4", "", Value(ds.kind))
    /\ UNCHANGED <<file, imports, ds, described, prevDescribed>>

\* In[5]: ds.
Cell5 ==
    /\ IF ds = None
       THEN out' = Error("NameError") /\ UNCHANGED <<described, prevDescribed>>
       ELSE /\ out' = Result("In5", "", Value(Describe(ds)))
            /\ described' = Describe(ds)
            /\ prevDescribed' = described
    /\ UNCHANGED <<file, imports, ds>>

\* A lookup that removes the key it reads (dict.pop in place of d[key]).
Cell6Pop ==
    \E key \in LookupKeys :
        /\ IF ds = None
           THEN out' = Error("NameError") /\ UNCHANGED ds
           ELSE /\ out' = Result("In6", key, AttrsGetItem(ds.attrs, key))
                /\ ds' = [ds EXCEPT !.attrs =
                             SelectSeq(ds.attrs, LAMBDA e : e[1] # key)]
        /\ UNCHANGED <<file, imports, described, prevDescribed>>

\* In[6]: print ds.attrs[key] (key = 'Conventions' in the tutorial).
Cell6 ==
    \E key \in LookupKeys :
        /\ out' = IF ds = None THEN Error("NameError")
                  ELSE Result("In6", key, AttrsGetItem(ds.attrs, key))
        /\ UNCHANGED <<file, imports, ds, described, prevDescribed>>

\* In[7]: ds.XC.
Cell7 ==
    /\ out' = IF ds = None THEN Error("NameError")
              ELSE Result("In7", "", Value(DataArray(ds, "XC")))
    /\ UNCHANGED <<file, imports, ds, described, prevDescribed>>

\* The attrs dictionary of ds.XC, looked up as that of ds is in In[6].
XCAttr ==
    \E key \in LookupKeys :
        /\ out' = IF ds = None THEN Error("NameError")
                  ELSE Result("XC.attrs", key,
                              AttrsGetItem(DataArray(ds, "XC").attrs, key))
        /\ UNCHANGED <<file, imports, ds, described, prevDescribed>>

\* In[8]: ds.XC.values.
Cell8 ==
    /\ out' = IF ds = None THEN Error("NameError")
              ELSE Result("In8", "", Value(DataArray(ds, "XC").values))
    /\ UNCHANGED <<file, imports, ds, described, prevDescribed>>

\* In[9]: type(ds.XC.values).
Cell9 ==
    /\ out' = IF ds = None THEN Error("NameError")
              ELSE Result("In9", "", Value(DataArray(ds, "XC").values.kind))
    /\ UNCHANGED <<file, imports, ds, described, prevDescribed>>

Next ==
    \/ Cell1 \/ Cell2 \/ Cell3 \/ Cell4 \/ Cell5
    \/ Cell6 \/ Cell7 \/ XCAttr \/ Cell8 \/ Cell9

Spec == Init /\ [][Next]_vars

----------------------------------------------------------------------------
(* Properties *)

Loaded == ds # None

\* The cell whose outcome `out` holds.
Ran(cell) == out.kind = "Out" /\ out.cell = cell

\* The length of dimension `name` read through the DataArray a.
ThroughArray(a, name) ==
    a.dims[CHOOSE k \in DOMAIN a.dims : a.dims[k][1] = name][2]

\* C2: within the Dataset, a dimension name used by two data variables has
\* the same length whichever variable it is read through, and that length is
\* the one the Dataset's dims give for the name; the Dataset's dims cover
\* the union of the dimensions its data variables use.
C2_DimensionLengthConsistency ==
    Loaded =>
        /\ \A v \in Names(ds.data_vars) :
               Keys(DataArray(ds, v).dims) \subseteq Keys(ds.dims)
        /\ \A v, w \in Names(ds.data_vars) :
               \A name \in Keys(DataArray(ds, v).dims)
                           \cap Keys(DataArray(ds, w).dims) :
                   /\ ThroughArray(DataArray(ds, v), name)
                        = ThroughArray(DataArray(ds, w), name)
                   /\ DimLength(ds, name)
                        = Value(ThroughArray(DataArray(ds, v), name))

\* ds.XC has been displayed for a file whose three dimensions differ in
\* length, so that a mixed-up dimension would show.
C2_Witness ==
    /\ Ran("In7")
    /\ out.result.value.dims[1][2] # out.result.value.dims[2][2]
    /\ DimLength(ds, "i1") # DimLength(ds, "i2")

\* C5: for every data variable, the shape of the array of the DataArray the
\* Dataset hands out is the sequence of the lengths the Dataset's dims give
\* for the variable's dimension names, in order; so is the shape of the
\* array that ds.XC.values displays.
C5_ShapeRoundTrip ==
    Loaded =>
        /\ \A k \in DOMAIN ds.data_vars :
               LET a == DataArray(ds, ds.data_vars[k].name)
               IN  /\ DOMAIN a.values.shape = DOMAIN ds.data_vars[k].dims
                   /\ \A j \in DOMAIN ds.data_vars[k].dims :
                          Value(a.values.shape[j])
                            = DimLength(ds, ds.data_vars[k].dims[j])
        /\ Ran("In8") =>
               /\ Len(out.result.value.shape) = 2
               /\ Value(out.result.value.shape[1]) = DimLength(ds, "i2")
               /\ Value(out.result.value.shape[2]) = DimLength(ds, "i3")

\* ds.XC.values has been displayed, with a different length on each axis.
C5_Witness ==
    /\ Ran("In8")
    /\ out.result.value.shape[1] < out.result.value.shape[2]

SectionTitles(r) == [k \in DOMAIN r.sections |-> r.sections[k].title]

C8_AttributeLookup ==
    (Ran("In6") \/ Ran("XC.attrs")) =>
        LET own == IF out.cell = "In6" THEN ds.attrs
                   ELSE ds.data_vars[CHOOSE k \in DOMAIN ds.data_vars :
                                        ds.data_vars[k].name = "XC"].attrs
            r == out.result
        IN  /\ (\E k \in DOMAIN own : own[k][1] = out.arg) =>
                   /\ r.kind = "Value"
                   /\ \E k \in DOMAIN own : own[k] = <<out.arg, r.value>>
            /\ ~(\E k \in DOMAIN own : own[k][1] = out.arg) =>
                   r = Error("KeyError")
            /\ (out.cell = "In6" /\ out.arg = "Conventions") =>
                   r = Value("CF-1.6")
            /\ out.arg = "Missing" => r = Error("KeyError")

\* The Dataset has been asked for a key that only ds.XC holds.
C8_Witness ==
    /\ Ran("In6")
    /\ out.arg = "long_name"
    /\ out.result.kind = "Error"

\* C10: every dimension with coordinate labels, on the Dataset or on one of
\* its DataArrays, has exactly as many labels as its length, so every
\* position p with 0 <= p < length has a label.
C10_LabelsCoverDimension ==
    Loaded =>
        /\ \A k \in DOMAIN ds.coords :
               /\ DimLength(ds, ds.coords[k].name).kind = "Value"
               /\ Len(ds.coords[k].labels)
                    = DimLength(ds, ds.coords[k].name).value
               /\ \A p \in 0..(DimLength(ds, ds.coords[k].name).value - 1) :
                      p + 1 \in DOMAIN ds.coords[k].labels
        /\ \A v \in Names(ds.data_vars) :
               LET a == DataArray(ds, v)
               IN  \A k \in DOMAIN a.coords :
                       /\ Len(a.coords[k].labels)
                            = ThroughArray(a, a.coords[k].name)
                       /\ \A p \in 0..(ThroughArray(a, a.coords[k].name) - 1) :
                              p + 1 \in DOMAIN a.coords[k].labels

\* ds.XC has been displayed with several labels on a dimension.
C10_Witness ==
    /\ Ran("In7")
    /\ Len(out.result.value.coords[1].labels) >= 2

====
